---- MODULE Spec2Model ----
(***************************************************************************)
(* Per-connection streaming relay of server/server_adk.py and              *)
(* server/common.py: handle_client, process_audio and the three tasks of   *)
(* its asyncio.TaskGroup (handle_websocket_messages, process_and_send_audio*)
(* and receive_and_process_responses).                                     *)
(*                                                                         *)
(* Scheduling is asyncio's: one task runs at a time and is only left at an *)
(* await that suspends.  An action is one such run of a task.              *)
(***************************************************************************)
EXTENDS Integers, Sequences, FiniteSets, TLC

(***************************************************************************)
(* Bounds of the model (environment inputs, not program constants).        *)
(***************************************************************************)
\* messages the ingress task reads per connection, inbound specification
MaxReadIn == 3
\* backend events per connection, outbound specification
MaxEventsOut == 3
\* messages read and backend events per connection, both directions fed
MaxReadAll == 2
MaxEventsAll == 2
\* backend events per connection, ordering specification
MaxEventsOrder == 4
\* backend events per connection, audio specification
MaxEventsAudio == 3
\* two connections at once: messages read and backend events, in total
MaxInputsTwo == 2

\* connection identities (id(websocket)); the specifications below drive
\* the first one, the second stays a connection that was never accepted
Conns == {1, 2}

(***************************************************************************)
(* base64 (standard library, as called at server_adk.py:210 and :265).     *)
(* A transport string is a sequence of character codes: 0..63 the value of *)
(* an alphabet character, Pad the '=' sign, Junk an ASCII character        *)
(* outside the alphabet, NonAscii a character outside ASCII.  Bytes are    *)
(* 0..255.                                                                 *)
(***************************************************************************)
Pad == 64
Junk == 65
NonAscii == 66

\* binascii.a2b_base64 in its default non-strict mode: characters outside
\* the alphabet are skipped, a complete pad sequence ends the parse, and a
\* quad left open at the end of the input is an error.
RECURSIVE a2b_base64(_, _, _, _, _, _)
a2b_base64(s, i, quad_pos, leftchar, pads, out) ==
    IF i > Len(s)
    THEN [ok |-> quad_pos = 0, data |-> IF quad_pos = 0 THEN out ELSE <<>>]
    ELSE LET ch == s[i] IN
         IF ch = Pad
         THEN IF quad_pos >= 2 /\ quad_pos + pads + 1 >= 4
              THEN [ok |-> TRUE, data |-> out]
              ELSE a2b_base64(s, i + 1, quad_pos, leftchar,
                              IF quad_pos >= 2 THEN pads + 1 ELSE pads, out)
         ELSE IF ch >= 64
         THEN a2b_base64(s, i + 1, quad_pos, leftchar, pads, out)
         ELSE CASE quad_pos = 0 ->
                     a2b_base64(s, i + 1, 1, ch, 0, out)
                [] quad_pos = 1 ->
                     a2b_base64(s, i + 1, 2, ch % 16, 0,
                                Append(out, (leftchar * 4 + ch \div 16) % 256))
                [] quad_pos = 2 ->
                     a2b_base64(s, i + 1, 3, ch % 4, 0,
                                Append(out, (leftchar * 16 + ch \div 4) % 256))
                [] OTHER ->
                     a2b_base64(s, i + 1, 0, 0, 0,
                                Append(out, (leftchar * 64 + ch) % 256))

\* base64.b64decode(s): a str argument is first encoded to ASCII (ValueError
\* on a non-ASCII character), then handed to a2b_base64 (binascii.Error).
b64decode(s) ==
    IF \E i \in 1..Len(s) : s[i] = NonAscii
    THEN [ok |-> FALSE, data |-> <<>>]
    ELSE a2b_base64(s, 1, 0, 0, 0, <<>>)

\* base64.b64encode(b).decode("utf-8"): three bytes to four characters, the
\* last group padded with '='.
RECURSIVE b64encode(_)
b64encode(b) ==
    CASE Len(b) = 0 -> <<>>
      [] Len(b) = 1 -> <<b[1] \div 4, (b[1] % 4) * 16, Pad, Pad>>
      [] Len(b) = 2 -> <<b[1] \div 4, (b[1] % 4) * 16 + b[2] \div 16,
                         (b[2] % 16) * 4, Pad>>
      [] OTHER -> <<b[1] \div 4, (b[1] % 4) * 16 + b[2] \div 16,
                    (b[2] % 16) * 4 + b[3] \div 64, b[3] % 64>>
                  \o b64encode(SubSeq(b, 4, Len(b)))

(***************************************************************************)
(* Client messages (the JSON envelopes read at server_adk.py:205).         *)
(* json: "object" a JSON object, "nonobject" valid JSON of another kind,   *)
(* "invalid" text json.loads rejects.  type: the value of the "type" key,  *)
(* "<none>" when the key is absent.  data: the value of the "data" key:    *)
(* kind "absent", "str" (chars holds the transport string) or "other"      *)
(* (a JSON value that is no string).                                       *)
(***************************************************************************)
Msg(j, t, k, chars) == [json |-> j, type |-> t, data |-> [kind |-> k, chars |-> chars]]

AudioABC     == Msg("object", "audio", "str", <<16, 20, 9, 3>>)
AudioA       == Msg("object", "audio", "str", <<16, 16, Pad, Pad>>)
AudioJunkAB  == Msg("object", "audio", "str", <<16, Junk, 20, 8, Pad>>)
AudioBadPad  == Msg("object", "audio", "str", <<16, 16, Pad>>)
AudioNonAsc  == Msg("object", "audio", "str", <<16, 16, NonAscii, Pad, Pad>>)
AudioNoData  == Msg("object", "audio", "absent", <<>>)
AudioNumber  == Msg("object", "audio", "other", <<>>)
EndMsg       == Msg("object", "end", "absent", <<>>)
TextMsg      == Msg("object", "text", "str", <<7, 8>>)
UnknownType  == Msg("object", "bogus", "absent", <<>>)
NoTypeMsg    == Msg("object", "<none>", "absent", <<>>)
NonObjectMsg == Msg("nonobject", "<none>", "absent", <<>>)
InvalidJson  == Msg("invalid", "<none>", "absent", <<>>)
NoMsg        == Msg("none", "<none>", "absent", <<>>)

ClientMsgsIn == {AudioABC, AudioA, AudioJunkAB, AudioBadPad, AudioNonAsc,
                 AudioNoData, AudioNumber, EndMsg, TextMsg, UnknownType,
                 NoTypeMsg, NonObjectMsg, InvalidJson}
ClientMsgsAll == {AudioABC, InvalidJson}
ClientMsgsTwo == {AudioA}

\* server_adk.py:207-218, the body of the try for one message: the
\* exception it raises ("none" when it completes), what it puts on the
\* queue, what it logs
TryBody(m) ==
    CASE m.json = "invalid"   -> [exc |-> "JSONDecodeError", put |-> <<>>, log |-> ""]
      [] m.json = "nonobject" -> [exc |-> "AttributeError", put |-> <<>>, log |-> ""]
      [] m.type = "audio" ->
           IF m.data.kind = "other"
           THEN [exc |-> "TypeError", put |-> <<>>, log |-> ""]
           ELSE LET r == b64decode(IF m.data.kind = "absent" THEN <<>> ELSE m.data.chars)
                IN  IF r.ok THEN [exc |-> "none", put |-> <<r.data>>, log |-> ""]
                    ELSE [exc |-> "binascii.Error", put |-> <<>>, log |-> ""]
      [] m.type = "end"  -> [exc |-> "none", put |-> <<>>,
                             log |-> "Received end signal from client"]
      [] m.type = "text" -> [exc |-> "none", put |-> <<>>, log |-> "Received text"]
      [] OTHER -> [exc |-> "none", put |-> <<>>, log |-> ""]

\* faulty variant of ExceptClause: the `except Exception` clause is missing
ExceptClauseJsonOnly(exc) ==
    IF exc = "JSONDecodeError" THEN "Invalid JSON message received" ELSE "uncaught"

\* server_adk.py:219-222, the except clauses: the log line of the clause
\* that takes the exception, "uncaught" when none does
ExceptClause(exc) ==
    CASE exc = "JSONDecodeError" -> "Invalid JSON message received"
      [] exc \in {"AttributeError", "TypeError", "binascii.Error", "ValueError"} ->
           "Error processing message"
      [] OTHER -> "uncaught"

\* server_adk.py:206-222, the try statement for one message
HandleMessage(m) ==
    LET b == TryBody(m) IN
    IF b.exc = "none"
    THEN [put |-> b.put, log |-> b.log, raised |-> FALSE]
    ELSE [put |-> <<>>, log |-> ExceptClause(b.exc),
          raised |-> ExceptClause(b.exc) = "uncaught"]

\* common.py:30
SEND_SAMPLE_RATE == 16000

\* server_adk.py:231-234, the Blob handed to send_realtime
Blob(data) == [data |-> data, mime_type |-> <<"audio/pcm;rate=", SEND_SAMPLE_RATE>>]

(***************************************************************************)
(* Backend events (the objects run_live yields, server_adk.py:249).        *)
(* ok: the event has the attributes the loop reads.  A part has            *)
(* inline_data (hasData, data) and text, a sequence of words, the empty    *)
(* sequence standing for None and for "".                                  *)
(***************************************************************************)
Part(hasData, data, text) == [hasData |-> hasData, data |-> data, text |-> text]
Event(ok, role, parts, partial, interrupted, turn_complete) ==
    [ok |-> ok, role |-> role, parts |-> parts, partial |-> partial,
     interrupted |-> interrupted, turn_complete |-> turn_complete]

TextPart(t) == Part(FALSE, <<>>, t)
AudioPart(b) == Part(TRUE, b, <<>>)

Hi        == <<"Hi">>
HiThere   == <<"Hi", "there">>
HiThereX  == <<"Hi", "there", "!">>
Quoted    == <<"set", "partial=True">>
Hello     == <<"hello">>

EvHi          == Event(TRUE, "model", <<TextPart(Hi)>>, TRUE, FALSE, FALSE)
EvHiThere     == Event(TRUE, "model", <<TextPart(HiThere)>>, TRUE, FALSE, FALSE)
EvHiThereX    == Event(TRUE, "model", <<TextPart(HiThereX)>>, TRUE, FALSE, FALSE)
EvFinal       == Event(TRUE, "model", <<TextPart(HiThereX)>>, FALSE, FALSE, TRUE)
EvQuoted      == Event(TRUE, "model", <<TextPart(Quoted)>>, FALSE, FALSE, FALSE)
EvAudioText   == Event(TRUE, "model",
                       <<Part(TRUE, <<65, 66>>, Hi), AudioPart(<<255>>), TextPart(HiThere)>>,
                       TRUE, FALSE, FALSE)
EvUser        == Event(TRUE, "user", <<TextPart(Hello)>>, TRUE, FALSE, FALSE)
EvInterrupted == Event(TRUE, "none", <<>>, FALSE, TRUE, FALSE)
EvTurn        == Event(TRUE, "none", <<>>, FALSE, FALSE, TRUE)
EvIntTurn     == Event(TRUE, "none", <<>>, FALSE, TRUE, TRUE)
EvMalformed   == Event(FALSE, "none", <<>>, FALSE, FALSE, FALSE)

EventsOut == {EvHi, EvFinal, EvQuoted, EvAudioText, EvUser,
              EvInterrupted, EvTurn, EvIntTurn, EvMalformed}
EvAudioInt    == Event(TRUE, "model", <<Part(TRUE, <<65, 66>>, Hi), AudioPart(<<255>>)>>,
                       TRUE, TRUE, FALSE)
EventsAll == {EvAudioText, EvIntTurn, EvMalformed}
EventsTwo == {EvInterrupted}
\* events with audio parts under every role and flag: user role, not
\* partial, the same bytes twice, with text in the part, with interruption
EvUserAudio   == Event(TRUE, "user", <<AudioPart(<<255>>), Part(TRUE, <<255>>, Hello)>>,
                       FALSE, FALSE, FALSE)
EvFinalAudio  == Event(TRUE, "model", <<Part(TRUE, <<65, 66>>, Hi)>>, FALSE, TRUE, TRUE)
EventsAudio == {EvAudioText, EvUserAudio, EvFinalAudio, EvInterrupted}
EventsOrder == {EvHi, EvHiThere, EvHiThereX, EvFinal, EvAudioInt}
Script    == <<EvHi, EvHiThere, EvHiThereX, EvFinal>>

\* str(event), server_adk.py:257: the fields of the event printed as
\* name=value; the text of every part is among them, and so is the partial
\* flag.
RECURSIVE PartsStr(_)
PartsStr(parts) ==
    IF parts = <<>> THEN <<>>
    ELSE <<"text=">> \o Head(parts).text \o PartsStr(Tail(parts))
EventStr(ev) ==
    <<"content=">> \o PartsStr(ev.parts)
    \o <<IF ev.partial THEN "partial=True" ELSE "partial=None">>

\* the `in` test of server_adk.py:281
Contains(str, word) == \E i \in 1..Len(str) : str[i] = word

\* the messages json.dumps builds at server_adk.py:266, 282, 291-294, 302
\* and common.py:238.  keys: the keys of the JSON object.
WireAudio(b64) == [type |-> "audio", keys |-> {"type", "data"}, text |-> <<>>, b64 |-> b64]
WireText(t)    == [type |-> "text", keys |-> {"type", "data"}, text |-> t, b64 |-> <<>>]
WireInterrupted ==
    [type |-> "interrupted", keys |-> {"type", "data"},
     text |-> <<"Response", "interrupted", "by", "user", "input">>, b64 |-> <<>>]
\* a faulty turn_complete: it carries a data string as `interrupted` does
WireTurnCompleteWithData ==
    [type |-> "turn_complete", keys |-> {"type", "data"},
     text |-> <<"Turn", "complete">>, b64 |-> <<>>]
WireTurnComplete == [type |-> "turn_complete", keys |-> {"type"}, text |-> <<>>, b64 |-> <<>>]
WireReady == [type |-> "ready", keys |-> {"type"}, text |-> <<>>, b64 |-> <<>>]

(***************************************************************************)
(* State.  Every variable but active_clients is a function of the          *)
(* connection.                                                             *)
(***************************************************************************)
VARIABLES
    active_clients,      \* self.active_clients (common.py:225), its keys
    hc,                  \* where handle_client / process_audio stands
    outcome,             \* the branch of handle_client's try that logged
    sock,                \* the client's socket: open, closed_ok, closed_err
    sent,                \* the messages websocket.send delivered, in order
    session,             \* the backend session exists (server_adk.py:168)
    ingress,             \* task handle_websocket_messages
    submitter,           \* task process_and_send_audio
    demux,               \* task receive_and_process_responses
    audio_queue,         \* audio_queue (server_adk.py:200)
    live_request_queue,  \* the Blobs send_realtime accepted, in order
    received,            \* history: the chunks the ingress task enqueued
    lastMsg,             \* history: the message the ingress task read last
    nRead,               \* history: how many messages it has read
    dst,                 \* locals of receive_and_process_responses
    evlog                \* history: the events it took, with what each sent

vars == <<active_clients, hc, outcome, sock, sent, session, ingress, submitter,
          demux, audio_queue, live_request_queue, received, lastMsg, nRead,
          dst, evlog>>

connVars == <<active_clients, hc, outcome, session>>
inVars   == <<audio_queue, live_request_queue, received, lastMsg, nRead>>
outVars  == <<sent, dst, evlog>>
taskVars == <<ingress, submitter, demux>>

\* server_adk.py:242-246, the locals at the start of the demultiplexer; pc
\* is the line the task resumes at, i the index of the part in hand
DemuxStart == [pc |-> "next", i |-> 1, input_texts |-> <<>>,
               output_texts |-> <<>>, interrupted |-> FALSE]

Init ==
    /\ active_clients = {}
    /\ hc = [c \in Conns |-> "new"]
    /\ outcome = [c \in Conns |-> "none"]
    /\ sock = [c \in Conns |-> "open"]
    /\ sent = [c \in Conns |-> <<>>]
    /\ session = [c \in Conns |-> FALSE]
    /\ ingress = [c \in Conns |-> "none"]
    /\ submitter = [c \in Conns |-> "none"]
    /\ demux = [c \in Conns |-> "none"]
    /\ audio_queue = [c \in Conns |-> <<>>]
    /\ live_request_queue = [c \in Conns |-> <<>>]
    /\ received = [c \in Conns |-> <<>>]
    /\ lastMsg = [c \in Conns |-> NoMsg]
    /\ nRead = [c \in Conns |-> 0]
    /\ dst = [c \in Conns |-> DemuxStart]
    /\ evlog = [c \in Conns |-> <<>>]

Finished(t) == t \in {"returned", "raised", "cancelled"}

(***************************************************************************)
(* The client closes its socket, cleanly (close code 1000/1001) or not.    *)
(***************************************************************************)
ClientClose(c) ==
    /\ sock[c] = "open"
    /\ hc[c] # "done"
    /\ \E how \in {"closed_ok", "closed_err"} : sock' = [sock EXCEPT ![c] = how]
    /\ UNCHANGED <<connVars, inVars, outVars, taskVars>>

(***************************************************************************)
(* handle_client and process_audio up to the task group.                   *)
(***************************************************************************)
\* common.py:234-238.  The send is outside the try: on a closed socket the
\* exception leaves handle_client before anything is registered.
SendReady(c) ==
    /\ hc[c] = "new"
    /\ IF sock[c] = "open"
       THEN /\ sent' = [sent EXCEPT ![c] = Append(@, WireReady)]
            /\ hc' = [hc EXCEPT ![c] = "ready_sent"]
            /\ UNCHANGED outcome
       ELSE /\ hc' = [hc EXCEPT ![c] = "done"]
            /\ outcome' = [outcome EXCEPT ![c] = "propagated"]
            /\ UNCHANGED sent
    /\ UNCHANGED <<active_clients, session, sock, inVars, dst, evlog, taskVars>>

\* a faulty order: the connection is registered before `ready` is sent
RegisterBeforeReady(c) ==
    /\ hc[c] = "new"
    /\ active_clients' = active_clients \cup {c}
    /\ hc' = [hc EXCEPT ![c] = "registered"]
    /\ UNCHANGED <<outcome, session, sock, inVars, outVars, taskVars>>

\* common.py:242, server_adk.py:165
Register(c) ==
    /\ hc[c] = "ready_sent"
    /\ active_clients' = active_clients \cup {c}
    /\ hc' = [hc EXCEPT ![c] = "registered"]
    /\ UNCHANGED <<outcome, session, sock, inVars, outVars, taskVars>>

\* server_adk.py:168-200
CreateSession(c) ==
    /\ hc[c] = "registered"
    /\ session' = [session EXCEPT ![c] = TRUE]
    /\ hc' = [hc EXCEPT ![c] = "session"]
    /\ UNCHANGED <<active_clients, outcome, sock, inVars, outVars, taskVars>>

\* server_adk.py:202, 321-323: the three tasks are created, and the body
\* of the async with is left to wait for them
StartTasks(c) ==
    /\ hc[c] = "session"
    /\ hc' = [hc EXCEPT ![c] = "running"]
    /\ ingress' = [ingress EXCEPT ![c] = "running"]
    /\ submitter' = [submitter EXCEPT ![c] = "running"]
    /\ demux' = [demux EXCEPT ![c] = "running"]
    /\ UNCHANGED <<active_clients, outcome, session, sock, inVars, outVars>>

(***************************************************************************)
(* Task handle_websocket_messages, server_adk.py:204-222.                  *)
(***************************************************************************)
\* one iteration of `async for message in websocket`: the iterator ends on
\* a clean close and raises ConnectionClosedError on any other; put on the
\* unbounded queue does not suspend; an exception the try does not catch
\* ends the task
IngressRead(c, Msgs, MaxRead) ==
    /\ ingress[c] = "running"
    /\ CASE sock[c] = "closed_ok" ->
              /\ ingress' = [ingress EXCEPT ![c] = "returned"]
              /\ UNCHANGED inVars
         [] sock[c] = "closed_err" ->
              /\ ingress' = [ingress EXCEPT ![c] = "raised"]
              /\ UNCHANGED inVars
         [] OTHER ->
              /\ nRead[c] < MaxRead
              /\ \E m \in Msgs :
                   LET r == HandleMessage(m) IN
                   /\ audio_queue' = [audio_queue EXCEPT ![c] = @ \o r.put]
                   /\ received' = [received EXCEPT ![c] = @ \o r.put]
                   /\ lastMsg' = [lastMsg EXCEPT ![c] = m]
                   /\ nRead' = [nRead EXCEPT ![c] = @ + 1]
                   /\ ingress' = [ingress EXCEPT ![c] =
                                     IF r.raised THEN "raised" ELSE @]
              /\ UNCHANGED live_request_queue
    /\ UNCHANGED <<connVars, sock, outVars, submitter, demux>>

(***************************************************************************)
(* Task process_and_send_audio, server_adk.py:225-237.                     *)
(***************************************************************************)
\* faulty variant of QueueGet: a stack, the newest item first
QueueGetLifo(q) == [item |-> q[Len(q)], rest |-> SubSeq(q, 1, Len(q) - 1)]

\* audio_queue.get() of asyncio.Queue: the oldest item
QueueGet(q) == [item |-> Head(q), rest |-> Tail(q)]

\* one iteration of the loop, which suspends only in get() on an empty
\* queue; send_realtime either accepts the Blob or raises, and nothing in
\* the loop catches
SubmitChunk(c) ==
    /\ submitter[c] = "running"
    /\ audio_queue[c] # <<>>
    /\ LET g == QueueGet(audio_queue[c]) IN
       /\ audio_queue' = [audio_queue EXCEPT ![c] = g.rest]
       /\ \E accepted \in BOOLEAN :
            IF accepted
            THEN /\ live_request_queue' =
                        [live_request_queue EXCEPT ![c] = Append(@, Blob(g.item))]
                 /\ UNCHANGED submitter
            ELSE /\ submitter' = [submitter EXCEPT ![c] = "raised"]
                 /\ UNCHANGED live_request_queue
    /\ UNCHANGED <<connVars, sock, outVars, ingress, demux, received, lastMsg, nRead>>

(***************************************************************************)
(* Task receive_and_process_responses, server_adk.py:240-318.              *)
(* The task is left only at `async for` (pc "next") and inside a           *)
(* websocket.send; dst.pc names the line it continues at afterwards.       *)
(***************************************************************************)
\* faulty variant of IsUserRole: the role is compared with another tag
IsUserRoleWrongTag(ev) == ev.role = "human"

\* server_adk.py:271
IsUserRole(ev) == ev.role = "user"

\* faulty variants of MarkedPartial: the test is inverted; the test is
\* left out
MarkedPartialInverted(ev) == Contains(EventStr(ev), "partial=None")
MarkedPartialAlways(ev) == TRUE

\* server_adk.py:281
MarkedPartial(ev) == Contains(EventStr(ev), "partial=True")

\* faulty variant of NotifyInterruption: the flag of the turn is not consulted
NotifyInterruptionEvery(ev, st) == ev.interrupted

\* a faulty test: an event that also ends the turn is not notified
NotifyInterruptionUnlessTurnEnds(ev, st) ==
    ev.interrupted /\ ~st.interrupted /\ ~ev.turn_complete

\* server_adk.py:289
NotifyInterruption(ev, st) == ev.interrupted /\ ~st.interrupted

\* faulty variant of NotifyTurnComplete: the interruption is not consulted
NotifyTurnCompleteAlways(st) == TRUE

\* server_adk.py:300
NotifyTurnComplete(st) == ~st.interrupted

\* faulty variant of ResetTurn: the interrupted flag survives the turn
ResetTurnKeepsFlag(st) == [st EXCEPT !.input_texts = <<>>, !.output_texts = <<>>]

\* server_adk.py:316-318
ResetTurn(st) == [st EXCEPT !.input_texts = <<>>, !.output_texts = <<>>,
                            !.interrupted = FALSE]

\* The code from the line st.pc up to the next websocket.send, or to the
\* end of the loop body: the locals as they are then, and the message the
\* send is called with (<<>> when the body ended without another send).
\* a faulty test: a part that has text as well is not taken as audio
HasAudioOnly(part) == part.hasData /\ part.text = <<>>

\* server_adk.py:264
HasAudio(part) == part.hasData

RECURSIVE RunToSend(_, _)
RunToSend(ev, st) ==
    CASE st.pc = "part" ->                                   \* line 262-266
           IF st.i > Len(ev.parts)
           THEN RunToSend(ev, [st EXCEPT !.pc = "intr"])
           ELSE IF HasAudio(ev.parts[st.i])
                THEN [st |-> [st EXCEPT !.pc = "text"],
                      send |-> <<WireAudio(b64encode(ev.parts[st.i].data))>>]
                ELSE RunToSend(ev, [st EXCEPT !.pc = "text"])
      [] st.pc = "text" ->                                   \* line 269-282
           IF ev.parts[st.i].text = <<>>
           THEN RunToSend(ev, [st EXCEPT !.pc = "part", !.i = @ + 1])
           ELSE IF IsUserRole(ev)
                THEN RunToSend(ev, [st EXCEPT !.pc = "part", !.i = @ + 1,
                                       !.input_texts = Append(@, ev.parts[st.i].text)])
                ELSE IF MarkedPartial(ev)
                     THEN [st |-> [st EXCEPT !.pc = "text_sent"],
                           send |-> <<WireText(ev.parts[st.i].text)>>]
                     ELSE RunToSend(ev, [st EXCEPT !.pc = "part", !.i = @ + 1])
      [] st.pc = "text_sent" ->                              \* line 283
           RunToSend(ev, [st EXCEPT !.pc = "part", !.i = @ + 1,
                             !.output_texts = Append(@, ev.parts[st.i].text)])
      [] st.pc = "intr" ->                                   \* line 289-294
           IF NotifyInterruption(ev, st)
           THEN [st |-> [st EXCEPT !.pc = "intr_sent"], send |-> <<WireInterrupted>>]
           ELSE RunToSend(ev, [st EXCEPT !.pc = "turn"])
      [] st.pc = "intr_sent" ->                              \* line 295
           RunToSend(ev, [st EXCEPT !.pc = "turn", !.interrupted = TRUE])
      [] st.pc = "turn" ->                                   \* line 298-302
           IF ev.turn_complete
           THEN IF NotifyTurnComplete(st)
                THEN [st |-> [st EXCEPT !.pc = "reset"], send |-> <<WireTurnComplete>>]
                ELSE RunToSend(ev, [st EXCEPT !.pc = "reset"])
           ELSE [st |-> [st EXCEPT !.pc = "next", !.i = 1], send |-> <<>>]
      [] OTHER ->                                            \* line 305-318
           [st |-> [ResetTurn(st) EXCEPT !.pc = "next", !.i = 1], send |-> <<>>]

\* a faulty demultiplexer: once the turn is interrupted it sends no audio
\* and no text
DemuxRunMuted(c, ev, st, log) ==
    LET r0 == RunToSend(ev, st)
        r == IF /\ st.interrupted /\ r0.send # <<>>
                /\ r0.send[1].type \in {"audio", "text"}
             THEN [st |-> r0.st, send |-> <<>>]
             ELSE r0
    IN
    IF r.send # <<>> /\ sock[c] # "open"
    THEN /\ demux' = [demux EXCEPT ![c] = "raised"]
         /\ dst' = [dst EXCEPT ![c] = st]
         /\ evlog' = [evlog EXCEPT ![c] = log]
         /\ UNCHANGED sent
    ELSE /\ dst' = [dst EXCEPT ![c] = r.st]
         /\ sent' = [sent EXCEPT ![c] = @ \o r.send]
         /\ evlog' = [evlog EXCEPT ![c] =
                         [log EXCEPT ![Len(log)].out = @ \o r.send]]
         /\ UNCHANGED demux

\* the run of the task from st.pc on event ev: websocket.send raises
\* ConnectionClosed when the socket is no longer open
DemuxRun(c, ev, st, log) ==
    LET r == RunToSend(ev, st) IN
    IF r.send # <<>> /\ sock[c] # "open"
    THEN /\ demux' = [demux EXCEPT ![c] = "raised"]
         /\ dst' = [dst EXCEPT ![c] = st]
         /\ evlog' = [evlog EXCEPT ![c] = log]
         /\ UNCHANGED sent
    ELSE /\ dst' = [dst EXCEPT ![c] = r.st]
         /\ sent' = [sent EXCEPT ![c] = @ \o r.send]
         /\ evlog' = [evlog EXCEPT ![c] =
                         [log EXCEPT ![Len(log)].out = @ \o r.send]]
         /\ UNCHANGED demux

\* the stream yields an event (line 249); one that lacks the attributes
\* read at line 261 raises AttributeError there
DemuxEvent(c, ev) ==
    /\ demux[c] = "running"
    /\ dst[c].pc = "next"
    /\ LET log == Append(evlog[c], [ev |-> ev, out |-> <<>>]) IN
       IF ev.ok
       THEN DemuxRun(c, ev, [dst[c] EXCEPT !.pc = "part", !.i = 1], log)
       ELSE /\ demux' = [demux EXCEPT ![c] = "raised"]
            /\ dst' = [dst EXCEPT ![c].pc = "part"]
            /\ evlog' = [evlog EXCEPT ![c] = log]
            /\ UNCHANGED sent
    /\ UNCHANGED <<connVars, sock, inVars, ingress, submitter>>

\* a websocket.send returned: the loop body goes on
DemuxResume(c) ==
    /\ demux[c] = "running"
    /\ dst[c].pc # "next"
    /\ DemuxRun(c, evlog[c][Len(evlog[c])].ev, dst[c], evlog[c])
    /\ UNCHANGED <<connVars, sock, inVars, ingress, submitter>>

\* run_live is exhausted (the task returns) or raises (the task fails)
StreamEnd(c) ==
    /\ demux[c] = "running"
    /\ dst[c].pc = "next"
    /\ \E how \in {"returned", "raised"} : demux' = [demux EXCEPT ![c] = how]
    /\ UNCHANGED <<connVars, sock, inVars, outVars, ingress, submitter>>

(***************************************************************************)
(* asyncio.TaskGroup, server_adk.py:202, and the rest of handle_client.    *)
(***************************************************************************)
\* a task ended with an exception: the group cancels every task that has
\* not finished; each is suspended at an await and ends there
CancelSiblings(t) == IF t = "running" THEN "cancelled" ELSE t

\* a faulty submitter, suspended between audio_queue.get() and
\* send_realtime: the cancellation takes the chunk it holds with it
TgAbortDropsChunk(c) ==
    /\ hc[c] = "running"
    /\ "raised" \in {ingress[c], submitter[c], demux[c]}
    /\ "running" \in {ingress[c], submitter[c], demux[c]}
    /\ ingress' = [ingress EXCEPT ![c] = CancelSiblings(@)]
    /\ submitter' = [submitter EXCEPT ![c] = CancelSiblings(@)]
    /\ demux' = [demux EXCEPT ![c] = CancelSiblings(@)]
    /\ audio_queue' = [audio_queue EXCEPT ![c] =
                          IF submitter[c] = "running" /\ @ # <<>> THEN Tail(@) ELSE @]
    /\ UNCHANGED <<connVars, sock, outVars, live_request_queue, received, lastMsg, nRead>>

TgAbort(c) ==
    /\ hc[c] = "running"
    /\ "raised" \in {ingress[c], submitter[c], demux[c]}
    /\ "running" \in {ingress[c], submitter[c], demux[c]}
    /\ ingress' = [ingress EXCEPT ![c] = CancelSiblings(@)]
    /\ submitter' = [submitter EXCEPT ![c] = CancelSiblings(@)]
    /\ demux' = [demux EXCEPT ![c] = CancelSiblings(@)]
    /\ UNCHANGED <<connVars, sock, inVars, outVars>>

\* what leaves `async with`: the group raises an ExceptionGroup of the
\* tasks' exceptions once all three have finished
GroupResult(i, s, d) ==
    IF "raised" \in {i, s, d} THEN "ExceptionGroup" ELSE "none"

\* common.py:243-247: the except clause that takes the exception
HandlerBranch(exc) ==
    CASE exc = "none" -> "none"
      [] exc = "ConnectionClosed" -> "info"
      [] OTHER -> "error"

\* a faulty exit from `async with`: it does not wait for all three tasks
TgExitEarly(c) ==
    /\ hc[c] = "running"
    /\ Finished(ingress[c]) \/ Finished(submitter[c]) \/ Finished(demux[c])
    /\ outcome' = [outcome EXCEPT ![c] =
                      HandlerBranch(GroupResult(ingress[c], submitter[c], demux[c]))]
    /\ hc' = [hc EXCEPT ![c] = "finally"]
    /\ UNCHANGED <<active_clients, session, sock, inVars, outVars, taskVars>>

TgExit(c) ==
    /\ hc[c] = "running"
    /\ Finished(ingress[c]) /\ Finished(submitter[c]) /\ Finished(demux[c])
    /\ outcome' = [outcome EXCEPT ![c] =
                      HandlerBranch(GroupResult(ingress[c], submitter[c], demux[c]))]
    /\ hc' = [hc EXCEPT ![c] = "finally"]
    /\ UNCHANGED <<active_clients, session, sock, inVars, outVars, taskVars>>

\* a faulty finally: it empties the registry
UnregisterAll(c) ==
    /\ hc[c] = "finally"
    /\ active_clients' = {}
    /\ hc' = [hc EXCEPT ![c] = "done"]
    /\ UNCHANGED <<outcome, session, sock, inVars, outVars, taskVars>>

\* a faulty finally: the entry is not deleted
UnregisterKeepsEntry(c) ==
    /\ hc[c] = "finally"
    /\ hc' = [hc EXCEPT ![c] = "done"]
    /\ UNCHANGED <<active_clients, outcome, session, sock, inVars, outVars, taskVars>>

\* common.py:248-251
Unregister(c) ==
    /\ hc[c] = "finally"
    /\ active_clients' = active_clients \ {c}
    /\ hc' = [hc EXCEPT ![c] = "done"]
    /\ UNCHANGED <<outcome, session, sock, inVars, outVars, taskVars>>

(***************************************************************************)
(* Specifications.  Each drives connection 1.  The two directions of the   *)
(* relay share no data, only the task group, so each specification feeds   *)
(* one direction and leaves the other without input: a submitter that      *)
(* waits on an empty queue, or a backend stream that yields nothing before *)
(* it ends or fails.                                                       *)
(***************************************************************************)
Lifecycle(c) ==
    \/ ClientClose(c)
    \/ SendReady(c)
    \/ Register(c)
    \/ CreateSession(c)
    \/ StartTasks(c)
    \/ StreamEnd(c)
    \/ TgAbort(c)
    \/ TgExit(c)
    \/ Unregister(c)

\* inbound direction: every kind of client message, no backend event
NextIn ==
    \/ Lifecycle(1)
    \/ IngressRead(1, ClientMsgsIn, MaxReadIn)
    \/ SubmitChunk(1)

SpecIn == Init /\ [][NextIn]_vars

\* outbound direction: every kind of backend event, no client message
NextOut ==
    \/ Lifecycle(1)
    \/ IngressRead(1, {}, 0)
    \/ DemuxResume(1)
    \/ \E ev \in EventsOut : Len(evlog[1]) < MaxEventsOut /\ DemuxEvent(1, ev)

Spec == Init /\ [][NextOut]_vars

\* ordering of the outbound messages: the three partial texts and the
\* final text of the three-partials scenario, and an event with several
\* parts and the interrupted flag, in any order
NextOrder ==
    \/ Lifecycle(1)
    \/ IngressRead(1, {}, 0)
    \/ DemuxResume(1)
    \/ \E ev \in EventsOrder : Len(evlog[1]) < MaxEventsOrder /\ DemuxEvent(1, ev)

SpecOrder == Init /\ [][NextOrder]_vars

\* both directions fed at once, with a few inputs of each kind
NextAll ==
    \/ Lifecycle(1)
    \/ IngressRead(1, ClientMsgsAll, MaxReadAll)
    \/ SubmitChunk(1)
    \/ DemuxResume(1)
    \/ \E ev \in EventsAll : Len(evlog[1]) < MaxEventsAll /\ DemuxEvent(1, ev)

SpecAll == Init /\ [][NextAll]_vars

\* two connections served at once, each fed in both directions; the
\* messages read and the events taken are counted over both connections
InputsTwo == nRead[1] + nRead[2] + Len(evlog[1]) + Len(evlog[2])

NextTwo ==
    \E c \in Conns :
        \/ Lifecycle(c)
        \/ IngressRead(c, ClientMsgsTwo, nRead[c] + MaxInputsTwo - InputsTwo)
        \/ SubmitChunk(c)
        \/ DemuxResume(c)
        \/ \E ev \in EventsTwo : InputsTwo < MaxInputsTwo /\ DemuxEvent(c, ev)

SpecTwo == Init /\ [][NextTwo]_vars

\* outbound direction, events that carry audio
NextAudio ==
    \/ Lifecycle(1)
    \/ IngressRead(1, {}, 0)
    \/ DemuxResume(1)
    \/ \E ev \in EventsAudio : Len(evlog[1]) < MaxEventsAudio /\ DemuxEvent(1, ev)

SpecAudio == Init /\ [][NextAudio]_vars

(***************************************************************************)
(* Properties.                                                             *)
(***************************************************************************)
IsPrefix(s, t) == Len(s) <= Len(t) /\ SubSeq(t, 1, Len(s)) = s

\* the chunks handed to send_realtime, in order
Submitted(c) == [k \in 1..Len(live_request_queue[c]) |-> live_request_queue[c][k].data]

\* C1: the chunks submitted to the backend are a prefix of the chunks the
\* ingress task received, in the same order; while the submitter has not
\* failed, what was received is what was submitted followed by what is
\* still queued (nothing reordered, duplicated or skipped).
C1_FifoOrder ==
    \A c \in Conns :
        /\ IsPrefix(Submitted(c), received[c])
        /\ submitter[c] # "raised" => received[c] = Submitted(c) \o audio_queue[c]

C1_Witness ==
    /\ Len(received[1]) = 3
    /\ Len(Submitted(1)) >= 2
    /\ Submitted(1)[1] # Submitted(1)[2]

\* a message the ingress task must ignore: invalid JSON, JSON that is no
\* object, no type, an unknown type, `end`, `text`, or audio whose data
\* cannot be decoded
Ignored(m) ==
    \/ m.json # "object"
    \/ m.type # "audio"
    \/ m.data.kind = "other"
    \/ m.data.kind = "str" /\ ~b64decode(m.data.chars).ok

ValidAudio(m) ==
    /\ m.json = "object" /\ m.type = "audio" /\ m.data.kind = "str"
    /\ b64decode(m.data.chars).ok

ReadStep(c) == nRead'[c] = nRead[c] + 1

\* C10: reading a malformed message, or one of type end or text, enqueues
\* nothing, leaves the ingress loop running and the connection open and
\* registered, and touches no other task; a valid audio message read in any
\* later step is appended to the queue, from which the submitter takes it.
C10_IgnoredMessages ==
    [][\A c \in Conns : ReadStep(c) =>
          /\ Ignored(lastMsg'[c]) =>
                /\ audio_queue'[c] = audio_queue[c]
                /\ ingress'[c] = "running"
                /\ submitter'[c] = submitter[c] /\ demux'[c] = demux[c]
                /\ hc'[c] = "running" /\ sock'[c] = sock[c]
                /\ c \in active_clients'
          /\ ValidAudio(lastMsg'[c]) =>
                /\ audio_queue'[c] =
                      Append(audio_queue[c], b64decode(lastMsg'[c].data.chars).data)
                /\ ingress'[c] = "running"]_vars

\* a valid audio message read right after an ignored one has been submitted
C10_Witness ==
    /\ nRead[1] = 2 /\ Len(received[1]) = 1
    /\ ValidAudio(lastMsg[1])
    /\ Submitted(1) = received[1]
    /\ hc[1] = "running" /\ ingress[1] = "running"

(***************************************************************************)
(* The outbound side, read off the history evlog: entry k holds the k-th   *)
(* event the demultiplexer took and the messages sent while it was in hand.*)
(***************************************************************************)
\* event k has been processed to the end of the loop body
Complete(c, k) == k < Len(evlog[c]) \/ dst[c].pc = "next"

Count(msgs, type) == Cardinality({i \in 1..Len(msgs) : msgs[i].type = type})

RECURSIVE FlatOut(_)
FlatOut(log) == IF log = <<>> THEN <<>> ELSE Head(log).out \o FlatOut(Tail(log))

\* what the client was sent is `ready` followed by what the events sent
SentIsLog(c) ==
    IF sent[c] = <<>> THEN evlog[c] = <<>>
    ELSE sent[c] = <<WireReady>> \o FlatOut(evlog[c])

\* the first event of the turn event k belongs to: the one after the last
\* earlier event that signalled turn_complete
TurnStart(log, k) ==
    LET ends == {j \in 1..(k - 1) : log[j].ev.turn_complete}
    IN  IF ends = {} THEN 1 ELSE (CHOOSE j \in ends : \A i \in ends : i <= j) + 1

InterruptedBefore(log, k) == \E j \in TurnStart(log, k)..(k - 1) : log[j].ev.interrupted

\* the non-empty texts of the parts, in order
RECURSIVE PartTexts(_)
PartTexts(parts) ==
    IF parts = <<>> THEN <<>>
    ELSE (IF Head(parts).text = <<>> THEN <<>> ELSE <<Head(parts).text>>)
         \o PartTexts(Tail(parts))

IsText(m) == m.type = "text"
TextsSent(out) ==
    LET sel == SelectSeq(out, IsText) IN [i \in 1..Len(sel) |-> sel[i].text]

\* C3: in every turn the `interrupted` message is sent exactly once, by the
\* first event of the turn that signals interruption; no other event of the
\* turn sends one.
C3_InterruptedOnce ==
    \A c \in Conns : SentIsLog(c) /\
        \A k \in 1..Len(evlog[c]) :
            LET e == evlog[c][k]
                n == Count(e.out, "interrupted")
                first == e.ev.interrupted /\ ~InterruptedBefore(evlog[c], k)
            IN  /\ n <= (IF first THEN 1 ELSE 0)
                /\ Complete(c, k) => n = (IF first THEN 1 ELSE 0)
                /\ \A i \in 1..Len(e.out) :
                      e.out[i].type = "interrupted" => e.out[i] = WireInterrupted

C3_Witness ==
    /\ [k \in 1..Len(evlog[1]) |-> evlog[1][k].ev] = <<EvInterrupted, EvInterrupted>>
    /\ Complete(1, 2)
    /\ sent[1] = <<WireReady, WireInterrupted>>

\* C4: an event that signals turn_complete sends `turn_complete` exactly
\* when no interruption was signalled in its turn before the test is made
\* (by an earlier event, or by the event itself, whose interrupted flag is
\* examined first); events that do not signal it send none.  The events
\* interrupted, interrupted, turn_complete send one `interrupted` and no
\* `turn_complete`.
C4_TurnCompleteUnlessInterrupted ==
    \A c \in Conns : SentIsLog(c) /\
        /\ \A k \in 1..Len(evlog[c]) :
            LET e == evlog[c][k]
                n == Count(e.out, "turn_complete")
                due == /\ e.ev.turn_complete
                       /\ ~e.ev.interrupted
                       /\ ~InterruptedBefore(evlog[c], k)
            IN  /\ n <= (IF due THEN 1 ELSE 0)
                /\ Complete(c, k) => n = (IF due THEN 1 ELSE 0)
        /\ ( /\ Len(evlog[c]) >= 3
             /\ [k \in 1..3 |-> evlog[c][k].ev] = <<EvInterrupted, EvInterrupted, EvTurn>>
             /\ Complete(c, 3) )
           => FlatOut(SubSeq(evlog[c], 1, 3)) = <<WireInterrupted>>

C4_Witness ==
    /\ [k \in 1..Len(evlog[1]) |-> evlog[1][k].ev] = <<EvInterrupted, EvInterrupted, EvTurn>>
    /\ Complete(1, 3)
    /\ sent[1] = <<WireReady, WireInterrupted>>

\* C5: an event that is not marked partial sends no `text` message for an
\* assistant-role text part.
C5_FinalTextSuppressed ==
    \A c \in Conns : \A k \in 1..Len(evlog[c]) :
        LET e == evlog[c][k] IN
        (e.ev.ok /\ ~e.ev.partial /\ e.ev.role # "user") => Count(e.out, "text") = 0

\* C6: an event marked partial with assistant-role text parts sends one
\* `text` message per text part, in part order, whose data is the part's
\* text; while the event is in hand, the first of them.
C6_PartialTextForwarded ==
    \A c \in Conns : SentIsLog(c) /\
        \A k \in 1..Len(evlog[c]) :
            LET e == evlog[c][k] IN
            (e.ev.ok /\ e.ev.partial /\ e.ev.role # "user") =>
                /\ IsPrefix(TextsSent(e.out), PartTexts(e.ev.parts))
                /\ Complete(c, k) => TextsSent(e.out) = PartTexts(e.ev.parts)
                /\ \A i \in 1..Len(e.out) :
                      IsText(e.out[i]) => e.out[i] = WireText(e.out[i].text)

C6_Witness ==
    /\ Len(evlog[1]) = 1 /\ evlog[1][1].ev = EvAudioText /\ Complete(1, 1)
    /\ TextsSent(sent[1]) = <<Hi, HiThere>>

\* the texts of the user-role events of the turn in progress
RECURSIVE UserTexts(_, _, _)
UserTexts(log, from, to) ==
    IF from > to THEN <<>>
    ELSE (IF log[from].ev.role = "user" THEN PartTexts(log[from].ev.parts) ELSE <<>>)
         \o UserTexts(log, from + 1, to)

\* C7: an event with role "user" sends no `text` message; its texts go to
\* input_texts, which between events holds exactly the user texts of the
\* turn in progress, and never to output_texts.
C7_UserTextNotForwarded ==
    \A c \in Conns : SentIsLog(c) /\
        /\ \A k \in 1..Len(evlog[c]) :
              evlog[c][k].ev.role = "user" =>
                 /\ Count(evlog[c][k].out, "text") = 0
                 /\ \A i \in 1..Len(dst[c].output_texts) :
                       \A j \in 1..Len(evlog[c][k].ev.parts) :
                          dst[c].output_texts[i] # evlog[c][k].ev.parts[j].text
        /\ dst[c].pc = "next" =>
              dst[c].input_texts =
                 UserTexts(evlog[c], TurnStart(evlog[c], Len(evlog[c]) + 1), Len(evlog[c]))

C7_Witness ==
    /\ Len(evlog[1]) = 2 /\ evlog[1][1].ev = EvUser /\ evlog[1][2].ev = EvHi
    /\ Complete(1, 2)
    /\ dst[1].input_texts = <<Hello>>
    /\ sent[1] = <<WireReady, WireText(Hi)>>

\* C8: once an event that signals turn_complete has been processed, the
\* fragment sequences are empty and the interrupted flag is false; an
\* interruption signalled by the next event is notified again.
C8_TurnReset ==
    \A c \in Conns :
        /\ ( /\ Len(evlog[c]) >= 1 /\ dst[c].pc = "next"
             /\ evlog[c][Len(evlog[c])].ev.turn_complete )
           => /\ dst[c].input_texts = <<>>
              /\ dst[c].output_texts = <<>>
              /\ dst[c].interrupted = FALSE
        /\ \A k \in 2..Len(evlog[c]) :
              ( /\ evlog[c][k - 1].ev.turn_complete
                /\ evlog[c][k].ev.interrupted
                /\ Complete(c, k) )
              => Count(evlog[c][k].out, "interrupted") = 1

C8_Witness ==
    /\ [k \in 1..Len(evlog[1]) |-> evlog[1][k].ev] = <<EvUser, EvIntTurn, EvInterrupted>>
    /\ Complete(1, 3)
    /\ sent[1] = <<WireReady, WireInterrupted, WireInterrupted>>
    /\ dst[1].input_texts = <<>>

\* the messages an event can send, in the order of the loop body: for
\* every part its audio and then its text, then `interrupted`, then
\* `turn_complete`
RECURSIVE PartCandidates(_)
PartCandidates(parts) ==
    IF parts = <<>> THEN <<>>
    ELSE (IF Head(parts).hasData THEN <<WireAudio(b64encode(Head(parts).data))>> ELSE <<>>)
         \o (IF Head(parts).text # <<>> THEN <<WireText(Head(parts).text)>> ELSE <<>>)
         \o PartCandidates(Tail(parts))
Candidates(ev) ==
    PartCandidates(ev.parts)
    \o (IF ev.interrupted THEN <<WireInterrupted>> ELSE <<>>)
    \o (IF ev.turn_complete THEN <<WireTurnComplete>> ELSE <<>>)

\* s is t with some elements left out
RECURSIVE IsSubseq(_, _)
IsSubseq(s, t) ==
    IF s = <<>> THEN TRUE
    ELSE IF t = <<>> THEN FALSE
    ELSE IF Head(s) = Head(t) THEN IsSubseq(Tail(s), Tail(t))
    ELSE IsSubseq(s, Tail(t))

\* C9: the client is sent `ready` and then the messages of the events in
\* the order the events were taken; the messages of one event follow the
\* order parts (audio, then text, part by part), `interrupted`,
\* `turn_complete`; three partial texts followed by the final text with
\* turn_complete send three `text` messages and then one `turn_complete`.
C9_OutboundOrder ==
    \A c \in Conns : SentIsLog(c) /\
        /\ \A k \in 1..Len(evlog[c]) :
              IsSubseq(evlog[c][k].out, Candidates(evlog[c][k].ev))
        /\ ( /\ Len(evlog[c]) >= Len(Script)
             /\ [k \in 1..Len(Script) |-> evlog[c][k].ev] = Script
             /\ Complete(c, Len(Script)) )
           => FlatOut(SubSeq(evlog[c], 1, Len(Script))) =
                 <<WireText(Hi), WireText(HiThere), WireText(HiThereX), WireTurnComplete>>

C9_Witness ==
    /\ [k \in 1..Len(evlog[1]) |-> evlog[1][k].ev] = Script
    /\ Complete(1, Len(Script))
    /\ sent[1] = <<WireReady, WireText(Hi), WireText(HiThere), WireText(HiThereX),
                   WireTurnComplete>>

\* C2: once one of the three tasks has ended, by returning or by raising,
\* and the task group has dealt with its end, no sibling is still running;
\* and all three have finished when handle_client unregisters the
\* connection.
C2_SingleFailureUnit ==
    \A c \in Conns :
        /\ ( /\ hc[c] = "running"
             /\ \E t \in {ingress[c], submitter[c], demux[c]} : Finished(t)
             /\ ~ENABLED TgAbort(c) )
           => "running" \notin {ingress[c], submitter[c], demux[c]}
        /\ (hc[c] \in {"finally", "done"} /\ session[c])
           => Finished(ingress[c]) /\ Finished(submitter[c]) /\ Finished(demux[c])

\* a chunk was taken from the queue and send_realtime did not accept it
SubmissionFailed(c) ==
    Len(received[c]) > Len(Submitted(c)) + Len(audio_queue[c])

\* C11: a failed submission of one chunk does not end the submitter: the
\* task has not raised, the task group has cancelled nothing and the
\* connection is still registered.
C11_SubmitterSurvivesFailure ==
    \A c \in Conns :
        SubmissionFailed(c) =>
            /\ submitter[c] # "raised"
            /\ hc[c] = "running" => c \in active_clients

\* what the server can do for connection c without further input: no new
\* client message, no new backend event, no end of the stream, no close
ServerStep(c) ==
    \/ SendReady(c) \/ Register(c) \/ CreateSession(c) \/ StartTasks(c)
    \/ IngressRead(c, {}, 0) \/ SubmitChunk(c) \/ DemuxResume(c)
    \/ TgAbort(c) \/ TgExit(c) \/ Unregister(c)

\* the server has come to rest on connection c
Quiescent(c) == ~ENABLED ServerStep(c)

\* C12: once the backend stream has ended and the server has come to rest,
\* the ingress and submitter tasks have been cancelled and the connection
\* is no longer in active_clients.
C12_StreamEndTearsDown ==
    \A c \in Conns :
        (demux[c] = "returned" /\ Quiescent(c)) =>
            /\ Finished(ingress[c]) /\ Finished(submitter[c])
            /\ c \notin active_clients

\* C13: once the client's socket has closed, cleanly or not, and the
\* server has come to rest, the ingress task has ended, the submitter and
\* the demultiplexer have stopped and the connection is no longer in
\* active_clients.
C13_ClientCloseTearsDown ==
    \A c \in Conns :
        (sock[c] # "open" /\ Quiescent(c)) =>
            /\ ingress[c] \in {"none", "returned", "raised", "cancelled"}
            /\ submitter[c] # "running" /\ demux[c] # "running"
            /\ c \notin active_clients

\* C14: an event that lacks an expected attribute does not end the
\* demultiplexer: the task does not fail on it.
C14_MalformedEventSkipped ==
    \A c \in Conns :
        (Len(evlog[c]) >= 1 /\ ~evlog[c][Len(evlog[c])].ev.ok) => demux[c] # "raised"

Tasks(c) == {ingress[c], submitter[c], demux[c]}

\* C15: no task outlives its connection's registry entry: while any of a
\* connection's three tasks is running, its id is in active_clients.
C15_RunningImpliesRegistered ==
    \A c \in Conns : "running" \in Tasks(c) => c \in active_clients

\* one task of connection 1 has ended, another still runs, and the other
\* connection has already been removed from the registry
C15_Witness ==
    /\ ingress[1] = "returned" /\ submitter[1] = "running" /\ 1 \in active_clients
    /\ hc[2] = "done" /\ session[2] /\ 2 \notin active_clients

\* everything the server holds for connection c but its registry entry
ConnState(c) ==
    <<hc[c], outcome[c], sock[c], sent[c], session[c], ingress[c],
      submitter[c], demux[c], audio_queue[c], live_request_queue[c],
      received[c], lastMsg[c], nRead[c], dst[c], evlog[c]>>

\* a step in which connection c fails or is torn down: one of its tasks
\* ends with an exception or is cancelled, its handler reaches the except
\* clauses or the finally, or its registry entry is removed
TeardownStep(c) ==
    \/ \E t \in {"raised", "cancelled"} :
          \/ ingress[c] # t /\ ingress'[c] = t
          \/ submitter[c] # t /\ submitter'[c] = t
          \/ demux[c] # t /\ demux'[c] = t
    \/ hc[c] # hc'[c] /\ hc'[c] \in {"finally", "done"}
    \/ c \in active_clients /\ c \notin active_clients'

\* C18: with two connections served at once, a step in which one fails or
\* is torn down cancels no task of the other, does not remove the other's
\* registry entry, and leaves the other's queue, turn state and everything
\* else it holds unchanged.
C18_ConnectionIsolation ==
    [][\A c, d \in Conns :
          (c # d /\ TeardownStep(c)) =>
              /\ ConnState(d)' = ConnState(d)
              /\ (d \in active_clients') = (d \in active_clients)]_vars

\* connection 1 has failed and has been torn down while connection 2 is
\* registered, with its three tasks running, a chunk waiting in its queue
\* and an interruption recorded in its turn state
C18_Witness ==
    /\ hc[1] = "done" /\ outcome[1] = "error" /\ 1 \notin active_clients
    /\ "cancelled" \in Tasks(1)
    /\ 2 \in active_clients /\ Tasks(2) = {"running"}
    /\ audio_queue[2] # <<>> /\ dst[2].interrupted

\* the steps of a new connection, read off the state before and after
ReadyStep(c)    == sent[c] = <<>> /\ sent'[c] # <<>>
RegisterStep(c) == c \notin active_clients /\ c \in active_clients'
SessionStep(c)  == ~session[c] /\ session'[c]
StartStep(c)    == Tasks(c) = {"none"} /\ Tasks(c)' # {"none"}

\* C16, as stated: the connection is in the registry when `ready` is sent,
\* `ready` has been sent when the session is created, and the session
\* exists when the tasks are started.
C16_RegisteredBeforeReady ==
    [][\A c \in Conns :
          /\ ReadyStep(c) => c \in active_clients /\ ~session[c]
          /\ SessionStep(c) => sent[c] # <<>> /\ Tasks(c) = {"none"}
          /\ StartStep(c) => session[c]]_vars

\* C16, amended: `ready` is sent first, to a connection not yet in the
\* registry; the connection is registered next, when `ready` is the one
\* message sent; the session is created for a registered connection; the
\* tasks are started last, once the session exists.
C16_ReadyBeforeRegistered ==
    [][\A c \in Conns :
          /\ ReadyStep(c) =>
                /\ sent'[c] = <<WireReady>>
                /\ c \notin active_clients' /\ ~session'[c] /\ Tasks(c)' = {"none"}
          /\ RegisterStep(c) =>
                sent[c] = <<WireReady>> /\ ~session'[c] /\ Tasks(c)' = {"none"}
          /\ SessionStep(c) => c \in active_clients /\ Tasks(c)' = {"none"}
          /\ StartStep(c) =>
                session[c] /\ c \in active_clients /\ sent[c] = <<WireReady>>]_vars

\* connection 1 has gone through the four steps; connection 2 has been
\* sent `ready` and is not registered yet
C16_Witness ==
    /\ sent[1] = <<WireReady>> /\ 1 \in active_clients /\ session[1]
    /\ Tasks(1) = {"running"}
    /\ sent[2] = <<WireReady>> /\ 2 \notin active_clients /\ hc[2] = "ready_sent"

\* the demultiplexer's websocket.send raised on a socket the client had
\* closed cleanly, and no other task raised
CleanCloseDetected(c) ==
    /\ sock[c] = "closed_ok"
    /\ demux[c] = "raised" /\ dst[c].pc # "next"
    /\ evlog[c] # <<>> /\ evlog[c][Len(evlog[c])].ev.ok
    /\ ingress[c] # "raised" /\ submitter[c] # "raised"

\* C17: when the task group ends because a task found the socket closed
\* cleanly, handle_client takes the `Client disconnected` branch; when it
\* ends with any other exception, the error branch.
C17_CleanDisconnectNotAnError ==
    \A c \in Conns :
        (hc[c] \in {"finally", "done"} /\ "raised" \in Tasks(c)) =>
            outcome[c] = IF CleanCloseDetected(c) THEN "info" ELSE "error"

WireTypes == {"ready", "audio", "text", "interrupted", "turn_complete"}

RECURSIVE AudioBytes(_)
AudioBytes(parts) ==
    IF parts = <<>> THEN <<>>
    ELSE (IF Head(parts).hasData THEN <<Head(parts).data>> ELSE <<>>)
         \o AudioBytes(Tail(parts))

\* the audio messages the parts call for, one per part with audio
AudioOf(parts) ==
    [i \in 1..Len(AudioBytes(parts)) |-> WireAudio(b64encode(AudioBytes(parts)[i]))]

IsAudio(m) == m.type = "audio"

\* C20: an event processed to the end has sent, while it was in hand, one
\* `audio` message per part with audio, in part order, whose data decodes
\* to the part's bytes, whatever its role, partial flag or other flags;
\* while the event is in hand, the first of them.
C20_AudioAlwaysForwarded ==
    \A c \in Conns : SentIsLog(c) /\
        \A k \in 1..Len(evlog[c]) :
            LET e == evlog[c][k]
                audio == SelectSeq(e.out, IsAudio)
            IN  e.ev.ok =>
                /\ IsPrefix(audio, AudioOf(e.ev.parts))
                /\ Complete(c, k) => audio = AudioOf(e.ev.parts)
                /\ \A i \in 1..Len(audio) :
                      b64decode(audio[i].b64) =
                         [ok |-> TRUE, data |-> AudioBytes(e.ev.parts)[i]]

\* a user-role event that is not partial, with the same bytes in two
\* parts, and an interrupted event that ends the turn have sent their audio
C20_Witness ==
    /\ [k \in 1..Len(evlog[1]) |-> evlog[1][k].ev] = <<EvUserAudio, EvFinalAudio, EvUserAudio>>
    /\ Complete(1, 3)
    /\ Len(SelectSeq(sent[1], IsAudio)) = 5

C22_OnlyNotificationsSuppressed ==
    \A c \in Conns : SentIsLog(c) /\
        \A k \in 1..Len(evlog[c]) :
            LET e == evlog[c][k] IN
            (e.ev.ok /\ InterruptedBefore(evlog[c], k)) =>
                /\ Count(e.out, "interrupted") = 0
                /\ Count(e.out, "turn_complete") = 0
                /\ Complete(c, k) =>
                      /\ SelectSeq(e.out, IsAudio) = AudioOf(e.ev.parts)
                      /\ (e.ev.partial /\ e.ev.role # "user") =>
                            TextsSent(e.out) = PartTexts(e.ev.parts)

\* after an interruption, an event with audio and partial text has sent
\* them all, and the event that ends the turn has sent nothing
C22_Witness ==
    /\ [k \in 1..Len(evlog[1]) |-> evlog[1][k].ev] = <<EvInterrupted, EvAudioText, EvTurn>>
    /\ Complete(1, 3)
    /\ [i \in 1..Len(sent[1]) |-> sent[1][i].type] =
          <<"ready", "interrupted", "audio", "text", "audio", "text">>

\* C23: an event that signals both interrupted and turn_complete, in a
\* turn not yet interrupted, sends `interrupted` once and no
\* `turn_complete`; when it has been processed the interrupted flag is
\* false and the fragment sequences are empty.
C23_InterruptedAndTurnComplete ==
    \A c \in Conns : \A k \in 1..Len(evlog[c]) :
        LET e == evlog[c][k] IN
        ( /\ e.ev.ok /\ e.ev.interrupted /\ e.ev.turn_complete
          /\ ~InterruptedBefore(evlog[c], k) )
        => /\ Count(e.out, "turn_complete") = 0
           /\ Complete(c, k) => Count(e.out, "interrupted") = 1
           /\ (k = Len(evlog[c]) /\ dst[c].pc = "next") =>
                 /\ ~dst[c].interrupted
                 /\ dst[c].input_texts = <<>> /\ dst[c].output_texts = <<>>

\* a turn with a user text and a partial assistant text is ended by an
\* event with both flags
C23_Witness ==
    /\ [k \in 1..Len(evlog[1]) |-> evlog[1][k].ev] = <<EvUser, EvHi, EvIntTurn>>
    /\ Complete(1, 3)
    /\ sent[1] = <<WireReady, WireText(Hi), WireInterrupted>>
    /\ dst[1] = DemuxStart

\* the demultiplexer's websocket.send raised: the socket had closed
SendFailed(c) ==
    /\ sock[c] # "open"
    /\ demux[c] = "raised" /\ dst[c].pc # "next"
    /\ evlog[c] # <<>> /\ evlog[c][Len(evlog[c])].ev.ok

\* C24: after a send of the demultiplexer has failed, the handler does not
\* reach its finally while a task is running, and once the server has come
\* to rest the ingress and the submitter have ended (cancelled, unless
\* they had ended before), the handler is done and the connection is no
\* longer in active_clients.
C24_SendFailureTearsDown ==
    \A c \in Conns :
        SendFailed(c) =>
            /\ hc[c] \in {"running", "finally", "done"}
            /\ hc[c] # "running" => "running" \notin Tasks(c)
            /\ Quiescent(c) =>
                  /\ ingress[c] \in {"cancelled", "returned", "raised"}
                  /\ submitter[c] \in {"cancelled", "raised"}
                  /\ hc[c] = "done" /\ c \notin active_clients

\* a send failed while the other two tasks were running, with a chunk in
\* the queue; both were cancelled and the entry was removed
C24_Witness ==
    /\ SendFailed(1) /\ hc[1] = "done" /\ 1 \notin active_clients
    /\ ingress[1] = "cancelled" /\ submitter[1] = "cancelled"
    /\ audio_queue[1] # <<>> /\ outcome[1] = "error"
====
